---- MODULE Spec2Model ----
(***************************************************************************)
(* Visit tracking of the Django site: the request filter and middleware    *)
(* (apps/visits/middleware.py), the home view with its three read-through  *)
(* cache accessors (config/views.py) and the Visit table                   *)
(* (apps/visits/models.py).                                                *)
(*                                                                         *)
(* config/urls.py names the home view HomeView and config/views.py names   *)
(* the model PageVisit; the classes the sources define are HomePageView    *)
(* and Visit, and the model reads the two names as those.                  *)
(*                                                                         *)
(* Strings are TLA+ strings; Len, \o and SubSeq act on them character by   *)
(* character.  Python's None is the value None below.  A percentage is an  *)
(* integer number of hundredths of a percent (12.5 is 1250).               *)
(***************************************************************************)
EXTENDS Integers, Sequences, FiniteSets, TLC

VARIABLES
    visits,     \* the Visit table: a set of rows [id, path, timestamp]
    seq,        \* the last id the table assigned
    now,        \* the clock auto_now_add reads
    cache,      \* django.core.cache.cache: key -> value, None when absent
    rq,         \* one record per worker: the request it handles and its position
    started,    \* requests started so far
    settings,   \* STATIC_URL, MEDIA_URL and STATICFILES_VENDOR_DIR
    cmd,        \* the vendor_pull command: its position, lists and output
    files,      \* the file names present in the vendors directory
    ttl,        \* key -> the timeout its entry was stored with, None when absent
    probe       \* the request or the counts a single call is applied to

vars ==
    <<visits, seq, now, cache, rq, started, settings, cmd, files, ttl, probe>>

\* ------------------------------------------------------------------ bounds

\* Requests the main specification starts.
MaxRequests == 4

\* Largest total count the percentage is computed for.
MaxTotal == 32

\* Python's None in a cache slot or a local: counts and percentages are >= 0.
None == 0 - 1

\* ----------------------------------------------------------------- strings

UpperLetters == "ABCDEFGHIJKLMNOPQRSTUVWXYZ"

LowerLetters == "abcdefghijklmnopqrstuvwxyz"

\* One character of str.lower().
LowerChar(c) ==
    IF \E i \in 1..26 : SubSeq(UpperLetters, i, i) = c
    THEN LET i == CHOOSE j \in 1..26 : SubSeq(UpperLetters, j, j) = c
         IN  SubSeq(LowerLetters, i, i)
    ELSE c

\* str.lower(), as written in the sources.
RECURSIVE Lower(_)
Lower(s) ==
    IF Len(s) = 0 THEN ""
    ELSE LowerChar(SubSeq(s, 1, 1)) \o Lower(SubSeq(s, 2, Len(s)))

\* str.startswith(p)
StartsWith(s, p) == Len(s) >= Len(p) /\ SubSeq(s, 1, Len(p)) = p

\* str.endswith(p)
EndsWith(s, p) ==
    Len(s) >= Len(p) /\ SubSeq(s, Len(s) - Len(p) + 1, Len(s)) = p

\* p in s
Contains(s, p) ==
    \E i \in 1..(Len(s) - Len(p) + 1) : SubSeq(s, i, i + Len(p) - 1) = p

\* ---------------------------------------------------------------- requests

\* request.headers.get(name) is present
HasHeader(req, name) == \E h \in req.headers : h[1] = name

\* request.headers[name], when present
Header(req, name) == (CHOOSE h \in req.headers : h[1] = name)[2]

\* request.headers.get("User-Agent", "")
UserAgent(req) ==
    IF HasHeader(req, "User-Agent") THEN Header(req, "User-Agent") ELSE ""

\* request.headers.get("X-Requested-With") == "XMLHttpRequest"
IsAjax(req) ==
    /\ HasHeader(req, "X-Requested-With")
    /\ Header(req, "X-Requested-With") = "XMLHttpRequest"

\* ------------------------------------------------------------ request filter

extensions ==
    {".css", ".js", ".jpg", ".jpeg", ".png", ".gif", ".ico", ".svg",
     ".woff", ".woff2", ".ttf", ".eot", ".map", ".json"}

bots == {"bot", "crawler", "spider", "scraper"}

\* The prefix test of should_track: two string literals.
IsStaticOrMedia(path) ==
    StartsWith(path, "/static/") \/ StartsWith(path, "/media/")

\* The extension test with the path compared as it is.
HasAssetExtensionCaseSensitive(path) ==
    \E ext \in extensions : EndsWith(path, ext)

\* any(path.lower().endswith(ext) for ext in extensions)
HasAssetExtension(path) ==
    \E ext \in extensions : EndsWith(Lower(path), ext)

\* The bot test with the User-Agent compared as it is.
IsBotCaseSensitive(req) ==
    \E bot \in bots : Contains(UserAgent(req), bot)

\* any(bot in user_agent for bot in bots), user_agent lower-cased
IsBot(req) ==
    \E bot \in bots : Contains(Lower(UserAgent(req)), bot)

\* VisitMiddleware.should_track
should_track(req) ==
    IF IsStaticOrMedia(req.path) THEN FALSE
    ELSE IF IsAjax(req) THEN FALSE
    ELSE IF HasAssetExtension(req.path) THEN FALSE
    ELSE IF IsBot(req) THEN FALSE
    ELSE TRUE

\* The middleware's condition without the method test.
MiddlewareTracksAnyMethod(req) == should_track(req)

\* The condition of VisitMiddleware.__call__ under which it inserts.
MiddlewareTracks(req) == req.method = "GET" /\ should_track(req)

\* -------------------------------------------------------------- percentage

\* n / d rounded to the nearest integer, ties to the even one: what round()
\* does to the quotient (n >= 0, d > 0).  The float quotient of the code
\* rounds as the exact one for every total below 160.
RoundHalfEven(n, d) ==
    LET q == n \div d
        r == n % d
    IN  IF 2 * r < d THEN q
        ELSE IF 2 * r > d THEN q + 1
        ELSE IF q % 2 = 0 THEN q ELSE q + 1

\* The quotient cut instead of rounded.
PercentageTruncated(page_count, total_count) ==
    IF total_count = 0 THEN 0
    ELSE (10000 * page_count) \div total_count

\* The miss branch of get_page_visit_percentage, in hundredths of a percent:
\* 0.0 when the total is 0, else round((page_count / total_count) * 100, 2).
Percentage(page_count, total_count) ==
    IF total_count = 0 THEN 0
    ELSE RoundHalfEven(10000 * page_count, total_count)

\* ------------------------------------------------------------- Visit table

\* The row Visit.objects.create(path=path) inserts: the id the table assigns
\* next, the path, and auto_now_add's timestamp.
NewVisit(path) == [id |-> seq + 1, path |-> path, timestamp |-> now]

\* An insert that replaces the rows of the same path (update_or_create).
InsertReplacingPath(table, row) ==
    {v \in table : v.path # row.path} \cup {row}

\* The table after Visit.objects.create inserted row: the rows it had, and
\* the new one.
Insert(table, row) == table \cup {row}

\* Visit.objects.count()
CountAll == Cardinality(visits)

\* Visit.objects.filter(path=path).count()
CountPath(path) == Cardinality({v \in visits : v.path = path})

\* ------------------------------------------------------------------- cache

\* The paths of the requests the main specification sends.
MainPaths == {"/", "/visits/", "/static/app.css"}

TotalKey == "total_visit_count"

CountKey(path) == "page_visit_count_" \o path

PercentageKey(path) == "page_visit_percentage_" \o path

CacheKeys ==
    {TotalKey} \cup {CountKey(p) : p \in MainPaths}
               \cup {PercentageKey(p) : p \in MainPaths}

\* The key list with the total key left out.
InvalidatedKeysWithoutTotal(path) == {CountKey(path), PercentageKey(path)}

\* cache_keys of _invalidate_visit_cache
InvalidatedKeys(path) == {TotalKey, CountKey(path), PercentageKey(path)}

\* An invalidation that empties the cache (cache.clear()).
DeleteManyClearing(c, keys) == [k \in DOMAIN c |-> None]

\* cache.delete_many(keys)
DeleteMany(c, keys) == [k \in DOMAIN c |-> IF k \in keys THEN None ELSE c[k]]

\* cache.set that stores nothing.
CacheSetDropped(c, key, value) == c

\* cache.set(key, value, timeout)
CacheSet(c, key, value) == [c EXCEPT ![key] = value]

\* HomePageView.cache_timeout, the third argument of the three cache.set.
cache_timeout == 300

\* What the cache records for an entry stored with timeout None: it never
\* expires.
NoExpiry == 0 - 2

\* A cache.set that drops its third argument and stores without expiry.
CacheSetExpiryNever(t, key, timeout) == [t EXCEPT ![key] = NoExpiry]

\* cache.set(key, value, timeout): the timeout the entry is stored with.
CacheSetExpiry(t, key, timeout) == [t EXCEPT ![key] = timeout]

\* ---------------------------------------------------------------- workers

Workers == {"w1", "w2"}

NoRequest == [method |-> "", path |-> "", headers |-> {}]

Idle ==
    [pc |-> "idle", req |-> NoRequest, outcome |-> "none", stack |-> "ctx",
     count |-> None, got |-> None, nq |-> 0, pnq |-> 0,
     page_visit_count |-> None, total_visit_count |-> None,
     page_visit_percentage |-> None,
     total_count |-> None, page_count |-> None, percentage |-> None,
     tracked |-> "unasked", mwRows |-> 0, viewRows |-> 0, uninvalidated |-> FALSE, alone |-> TRUE,
     rowsAtStart |-> None, totalAtStart |-> None, rowsAtRender |-> None,
     qseq |-> None, pseq |-> None,
     calls |-> <<>>]

InFlight(s) == s.pc \notin {"idle", "done"}

\* rq after worker r moved to s: every other request in progress has now
\* been interleaved with.
Step(r, s) ==
    [q \in Workers |->
        IF q = r THEN s
        ELSE IF InFlight(rq[q]) THEN [rq[q] EXCEPT !.alone = FALSE]
        ELSE rq[q]]

Browser == {<<"User-Agent", "Mozilla/5.0">>}

Request(m, p, h) == [method |-> m, path |-> p, headers |-> h]

\* The requests of the main specification.
MainRequests ==
    {Request("GET", "/", Browser),
     Request("GET", "/visits/", Browser),
     Request("GET", "/", {<<"User-Agent", "Googlebot/2.1">>}),
     Request("HEAD", "/", Browser),
     Request("POST", "/", Browser),
     Request("GET", "/static/app.css", Browser)}

\* What the URL configuration and View.dispatch make of a request the
\* middleware passed on: the next position and the outcome.  "/" is
\* HomePageView and "/visits/" is VisitsView; both define get only, which
\* also serves HEAD.
Resolve(req) ==
    IF req.path = "/" THEN
        IF req.method \in {"GET", "HEAD"}
        THEN [pc |-> "record", outcome |-> "none"]
        ELSE [pc |-> "done", outcome |-> "not_allowed"]
    ELSE IF req.path = "/visits/" THEN
        IF req.method \in {"GET", "HEAD"}
        THEN [pc |-> "done", outcome |-> "rendered"]
        ELSE [pc |-> "done", outcome |-> "not_allowed"]
    ELSE [pc |-> "done", outcome |-> "not_found"]

\* A worker takes a request.
Start(r, req) ==
    /\ ~InFlight(rq[r])
    /\ started < MaxRequests
    /\ started' = started + 1
    /\ rq' = Step(r, [Idle EXCEPT !.pc = "middleware", !.req = req,
                                  !.rowsAtStart = CountAll,
                                  !.totalAtStart = cache[TotalKey]])
    /\ UNCHANGED <<visits, seq, now, cache, settings, cmd, files,
                     probe, ttl>>

\* A request that ends here with an unhandled exception (a 500 response).
Failed(s) == [s EXCEPT !.pc = "done", !.outcome = "error"]

\* VisitMiddleware.__call__: the insert when the request is tracked, then
\* get_response(request).  The insert is not guarded: when it raises, the
\* exception leaves the middleware.
Middleware(r) ==
    LET s == rq[r]
        next == Resolve(s.req)
        asked == IF s.req.method # "GET" THEN "unasked"
                 ELSE IF should_track(s.req) THEN "yes" ELSE "no"
        on == [s EXCEPT !.pc = next.pc, !.outcome = next.outcome,
                        !.tracked = asked]
    IN  /\ s.pc = "middleware"
        /\ IF MiddlewareTracks(s.req)
           THEN \E ok \in BOOLEAN :
                  IF ok
                  THEN /\ visits' = Insert(visits, NewVisit(s.req.path))
                       /\ seq' = seq + 1
                       /\ now' = now + 1
                       /\ rq' = Step(r, [on EXCEPT !.mwRows = 1,
                                                   !.uninvalidated = TRUE])
                  ELSE /\ rq' = Step(r, Failed([s EXCEPT !.tracked = asked]))
                       /\ UNCHANGED <<visits, seq, now>>
           ELSE /\ rq' = Step(r, on)
                /\ UNCHANGED <<visits, seq, now>>
        /\ UNCHANGED <<cache, started, settings, cmd, files,
                     probe, ttl>>

\* A recorder that invalidates whether the create succeeded or not.
RecordCreateInvalidatingAnyway(r) ==
    LET s == rq[r]
    IN  /\ s.pc = "record"
        /\ \E ok \in BOOLEAN :
             IF ok
             THEN /\ visits' = Insert(visits, NewVisit(s.req.path))
                  /\ seq' = seq + 1
                  /\ now' = now + 1
                  /\ rq' = Step(r, [s EXCEPT !.pc = "invalidate",
                                             !.viewRows = 1,
                                             !.uninvalidated = TRUE])
                  /\ UNCHANGED <<cache, ttl>>
             ELSE /\ rq' = Step(r, Failed(s))
                  /\ cache' = DeleteMany(cache, InvalidatedKeys(s.req.path))
                  /\ ttl' = DeleteMany(ttl, InvalidatedKeys(s.req.path))
                  /\ UNCHANGED <<visits, seq, now>>
        /\ UNCHANGED <<started, settings, cmd, files, probe>>

\* HomePageView.record_page_visit, the create: not guarded either.
RecordCreate(r) ==
    LET s == rq[r]
    IN  /\ s.pc = "record"
        /\ \E ok \in BOOLEAN :
             IF ok
             THEN /\ visits' = Insert(visits, NewVisit(s.req.path))
                  /\ seq' = seq + 1
                  /\ now' = now + 1
                  /\ rq' = Step(r, [s EXCEPT !.pc = "invalidate",
                                             !.viewRows = 1,
                                             !.uninvalidated = TRUE])
             ELSE /\ rq' = Step(r, Failed(s))
                  /\ UNCHANGED <<visits, seq, now>>
        /\ UNCHANGED <<cache, started, settings, cmd, files,
                     probe, ttl>>

\* HomePageView._invalidate_visit_cache, then get_context_data's first call.
Invalidate(r) ==
    LET s == rq[r]
    IN  /\ s.pc = "invalidate"
        /\ cache' = DeleteMany(cache, InvalidatedKeys(s.req.path))
        /\ ttl' = DeleteMany(ttl, InvalidatedKeys(s.req.path))
        /\ rq' = Step(r, [s EXCEPT !.pc = "count_get", !.stack = "ctx",
                                   !.uninvalidated = FALSE])
        /\ UNCHANGED <<visits, seq, now, started, settings, cmd, files,
                     probe>>

\* One finished call of an accessor, for the record.
Call(fn, got, nq, stored, ret) ==
    [fn |-> fn, got |-> got, nq |-> nq, stored |-> stored, ret |-> ret]

\* The caller takes the value get_page_visit_count or get_total_visit_count
\* returned: get_context_data fills the context and calls the next accessor;
\* get_page_visit_percentage goes on with its miss branch.
ReturnTo(s, fn, v) ==
    IF s.stack = "ctx" THEN
        IF fn = "count"
        THEN [s EXCEPT !.page_visit_count = v, !.pc = "total_get"]
        ELSE [s EXCEPT !.total_visit_count = v, !.pc = "pct_get"]
    ELSE
        IF fn = "total" THEN
            IF v = 0
            THEN [s EXCEPT !.total_count = v, !.percentage = 0,
                           !.pnq = s.pnq + 1, !.pc = "pct_set"]
            ELSE [s EXCEPT !.total_count = v, !.pc = "count_get"]
        ELSE [s EXCEPT !.page_count = v,
                       !.percentage = Percentage(v, s.total_count),
                       !.pnq = s.pnq + 1, !.pc = "pct_set"]

\* The key a count accessor reads.
KeyOf(fn, path) == IF fn = "total" THEN TotalKey ELSE CountKey(path)

\* count = cache.get(cache_key); if count is None: ... of
\* get_page_visit_count (fn = "count") and get_total_visit_count
\* (fn = "total").
AccessorGet(r, fn) ==
    LET s == rq[r]
        got == cache[KeyOf(fn, s.req.path)]
    IN  /\ s.pc = fn \o "_get"
        /\ IF got = None
           THEN rq' = Step(r, [s EXCEPT !.count = None, !.got = None,
                                        !.nq = 0, !.pc = fn \o "_query"])
           ELSE rq' = Step(r,
                    [ReturnTo(s, fn, got) EXCEPT
                        !.count = got, !.got = got, !.nq = 0,
                        !.calls = Append(s.calls,
                                         Call(fn, got, 0, FALSE, got))])
        /\ UNCHANGED <<visits, seq, now, cache, started, settings, cmd, files,
                     probe, ttl>>

\* A count kept by the request itself: the rows there were when it started
\* and those it inserted, of whatever path.
AccessorQueryFromStart(r, fn) ==
    LET s == rq[r]
        n == s.rowsAtStart + s.mwRows + s.viewRows
    IN  /\ s.pc = fn \o "_query"
        /\ rq' = Step(r, [s EXCEPT !.count = n, !.nq = s.nq + 1,
                                   !.qseq = seq, !.pc = fn \o "_set"])
        /\ UNCHANGED <<visits, seq, now, cache, started, settings, cmd, files,
                     probe, ttl>>

\* count = Visit.objects.count() or .filter(path=path).count()
AccessorQuery(r, fn) ==
    LET s == rq[r]
        n == IF fn = "total" THEN CountAll ELSE CountPath(s.req.path)
    IN  /\ s.pc = fn \o "_query"
        /\ rq' = Step(r, [s EXCEPT !.count = n, !.nq = s.nq + 1,
                                   !.qseq = seq, !.pc = fn \o "_set"])
        /\ UNCHANGED <<visits, seq, now, cache, started, settings, cmd, files,
                     probe, ttl>>

\* cache.set(cache_key, count, self.cache_timeout); return count
AccessorSet(r, fn) ==
    LET s == rq[r]
        key == KeyOf(fn, s.req.path)
        c == CacheSet(cache, key, s.count)
    IN  /\ s.pc = fn \o "_set"
        /\ cache' = c
        /\ ttl' = CacheSetExpiry(ttl, key, cache_timeout)
        /\ rq' = Step(r,
                 [ReturnTo(s, fn, s.count) EXCEPT
                     !.calls = Append(s.calls,
                                      Call(fn, s.got, s.nq, c[key] = s.count,
                                           s.count))])
        /\ UNCHANGED <<visits, seq, now, started, settings, cmd, files,
                     probe>>

\* percentage = cache.get(cache_key) of get_page_visit_percentage: a hit
\* returns it, a miss calls get_total_visit_count.
PercentageGet(r) ==
    LET s == rq[r]
        got == cache[PercentageKey(s.req.path)]
    IN  /\ s.pc = "pct_get"
        /\ IF got = None
           THEN rq' = Step(r, [s EXCEPT !.stack = "pct", !.percentage = None,
                                        !.pnq = 0, !.pseq = seq,
                                        !.pc = "total_get"])
           ELSE rq' = Step(r,
                    [s EXCEPT !.page_visit_percentage = got, !.pc = "render",
                              !.calls = Append(s.calls,
                                          Call("pct", got, 0, FALSE, got))])
        /\ UNCHANGED <<visits, seq, now, cache, started, settings, cmd, files,
                     probe, ttl>>

\* cache.set(cache_key, percentage, self.cache_timeout); return percentage
PercentageSet(r) ==
    LET s == rq[r]
        key == PercentageKey(s.req.path)
        c == CacheSet(cache, key, s.percentage)
    IN  /\ s.pc = "pct_set"
        /\ cache' = c
        /\ ttl' = CacheSetExpiry(ttl, key, cache_timeout)
        /\ rq' = Step(r,
                 [s EXCEPT !.page_visit_percentage = s.percentage,
                           !.stack = "ctx", !.pc = "render",
                           !.calls = Append(s.calls,
                                       Call("pct", None, s.pnq,
                                            c[key] = s.percentage,
                                            s.percentage))])
        /\ UNCHANGED <<visits, seq, now, started, settings, cmd, files,
                     probe>>

\* render(request, self.template_name, context=context)
Render(r) ==
    LET s == rq[r]
    IN  /\ s.pc = "render"
        /\ rq' = Step(r, [s EXCEPT !.pc = "done", !.outcome = "rendered",
                                   !.rowsAtRender = CountAll,
                                   !.qseq = None, !.pseq = None])
        /\ UNCHANGED <<visits, seq, now, cache, started, settings, cmd, files,
                     probe, ttl>>

\* The entry of key k, stored with a timeout, reaches it and is dropped.
Expire(k) ==
    /\ cache[k] # None
    /\ ttl[k] # NoExpiry
    /\ cache' = [cache EXCEPT ![k] = None]
    /\ ttl' = [ttl EXCEPT ![k] = None]
    /\ UNCHANGED <<visits, seq, now, rq, started, settings, cmd, files,
                     probe>>

\* STATIC_URL, MEDIA_URL and STATICFILES_VENDOR_DIR of config/settings/base.py.
BaseSettings ==
    [STATIC_URL |-> "/static/", MEDIA_URL |-> "/media/",
     STATICFILES_VENDOR_DIR |-> "staticfiles/vendors"]

\* The command before manage.py runs it.
IdleCommand ==
    [pc |-> "idle", outcome |-> "none", force |-> FALSE, i |-> 1,
     completed_urls |-> <<>>, failed_downloads |-> <<>>, log |-> <<>>,
     summary |-> "none", listed |-> <<>>, filesAtStart |-> {}]

NoProbe == [kind |-> "none"]

Init ==
    /\ visits = {}
    /\ seq = 0
    /\ now = 0
    /\ cache = [k \in CacheKeys |-> None]
    /\ rq = [r \in Workers |-> Idle]
    /\ started = 0
    /\ settings = BaseSettings
    /\ cmd = IdleCommand
    /\ files = {}
    /\ ttl = [k \in CacheKeys |-> None]
    /\ probe = NoProbe

\* One request at a time: the next one starts when none is in progress.
StartAlone(req) ==
    /\ \A q \in Workers : ~InFlight(rq[q])
    /\ Start("w1", req)

Next ==
    \/ \E req \in MainRequests : StartAlone(req)
    \/ \E r \in Workers : Middleware(r)
    \/ \E r \in Workers : RecordCreate(r)
    \/ \E r \in Workers : Invalidate(r)
    \/ \E r \in Workers : \E fn \in {"count", "total"} : AccessorGet(r, fn)
    \/ \E r \in Workers : \E fn \in {"count", "total"} : AccessorQuery(r, fn)
    \/ \E r \in Workers : \E fn \in {"count", "total"} : AccessorSet(r, fn)
    \/ \E r \in Workers : PercentageGet(r)
    \/ \E r \in Workers : PercentageSet(r)
    \/ \E r \in Workers : Render(r)
    \/ \E k \in CacheKeys : Expire(k)

Spec == Init /\ [][Next]_vars

\* ------------------------------------------- the filter on many requests

Methods == {"GET", "HEAD", "POST"}

FilterPaths ==
    {"/", "/visits/", "/about", "/static/app", "/static/css/app.css",
     "/media/a.png", "/staticfile", "/assets/app", "/uploads/doc",
     "/favicon.ico", "/Logo.PNG", "/api/data.json", "/css", "/feed.jsx"}

UserAgents ==
    {"Mozilla/5.0", "Googlebot/2.1", "BingBot", "SPIDER", "WebCrawler/1.0",
     "Scraper", "Robo"}

AjaxHeaders ==
    {{}, {<<"X-Requested-With", "XMLHttpRequest">>},
     {<<"X-Requested-With", "xmlhttprequest">>}}

AgentHeaders == {{}} \cup {{<<"User-Agent", ua>>} : ua \in UserAgents}

FilterRequests ==
    {Request(m, p, x \cup a) :
        m \in Methods, p \in FilterPaths, x \in AjaxHeaders, a \in AgentHeaders}

\* Values a deployment may give the two settings; the first is base.py's.
SettingsChoices ==
    {BaseSettings,
     [STATIC_URL |-> "/assets/", MEDIA_URL |-> "/uploads/",
      STATICFILES_VENDOR_DIR |-> "staticfiles/vendors"]}

FilterInit ==
    /\ visits = {}
    /\ seq = 0
    /\ now = 0
    /\ cache = [k \in CacheKeys |-> None]
    /\ rq = [r \in Workers |-> Idle]
    /\ started = 0
    /\ settings \in SettingsChoices
    /\ cmd = IdleCommand
    /\ files = {}
    /\ ttl = [k \in CacheKeys |-> None]
    /\ probe = NoProbe

\* The first request after start-up.
StartFirst(req) ==
    /\ started = 0
    /\ Start("w1", req)

FilterNext ==
    \/ \E req \in FilterRequests : StartFirst(req)
    \/ \E r \in Workers : Middleware(r)
    \/ \E r \in Workers : RecordCreate(r)
    \/ \E r \in Workers : Invalidate(r)
    \/ \E r \in Workers : \E fn \in {"count", "total"} : AccessorGet(r, fn)
    \/ \E r \in Workers : \E fn \in {"count", "total"} : AccessorQuery(r, fn)
    \/ \E r \in Workers : \E fn \in {"count", "total"} : AccessorSet(r, fn)
    \/ \E r \in Workers : PercentageGet(r)
    \/ \E r \in Workers : PercentageSet(r)
    \/ \E r \in Workers : Render(r)

SpecFilter == FilterInit /\ [][FilterNext]_vars

\* -------------------------------------------- the percentage on many counts

\* get_page_visit_percentage misses and computes from the two counts.
CallPercentage(page_count, total_count) ==
    /\ probe' = [kind |-> "percentage", page_count |-> page_count,
                 total_count |-> total_count,
                 result |-> Percentage(page_count, total_count)]
    /\ UNCHANGED <<visits, seq, now, cache, rq, started, settings,
                     cmd, files, ttl>>

PctNext ==
    \E total_count \in 0..MaxTotal : \E page_count \in 0..total_count :
        CallPercentage(page_count, total_count)

SpecPct == Init /\ [][PctNext]_vars

\* ------------------------------------------------------------------ claims

\* A GET of "/" the filter accepted, handled to the end with the page rendered.
HomeGetRendered(s) ==
    /\ s.pc = "done"
    /\ s.outcome = "rendered"
    /\ s.req.method = "GET"
    /\ s.req.path = "/"

\* C1: a trackable GET of "/" handled through the middleware and the home
\* view, with no other request interleaved, leaves the table with exactly one
\* row more than before, that row's path being "/".
C1_OneRowPerHomeGet ==
    \A r \in Workers :
        LET s == rq[r]
        IN  (HomeGetRendered(s) /\ s.tracked = "yes" /\ s.alone)
            => /\ s.mwRows + s.viewRows = 1
               /\ s.rowsAtRender = s.rowsAtStart + 1

\* C2: for a GET of "/" handled with no other request interleaved, the
\* total_visit_count of the rendered context is the number of rows in the
\* table after the request's inserts, whatever the cache held before and
\* whatever requests came earlier.
C2_TotalIsPostInsertCount ==
    \A r \in Workers :
        LET s == rq[r]
        IN  (HomeGetRendered(s) /\ s.alone)
            => s.total_visit_count = s.rowsAtRender

\* C2's case: the cached total was stale when the request started, and the
\* rendered total is the table's count.
C2_Witness ==
    \E r \in Workers :
        LET s == rq[r]
        IN  /\ HomeGetRendered(s) /\ s.alone
            /\ s.totalAtStart # None
            /\ s.totalAtStart # s.rowsAtStart
            /\ s.total_visit_count = s.rowsAtRender

\* C3: no request ends with an error because a Visit insert failed: a failed
\* insert, in the middleware or in the view's recorder, is suppressed and
\* the page is rendered.
C3_InsertFailureSuppressed ==
    \A r \in Workers : rq[r].outcome # "error"

\* C4: every successful insert made while handling a request is followed by
\* the deletion of the three keys of its path: no request reads the cache or
\* ends with its page rendered while a row it inserted has not been followed
\* by that deletion.
C4_InsertThenInvalidate ==
    \A r \in Workers :
        LET s == rq[r]
        IN  (s.outcome = "rendered" \/ s.pc \in {"count_get", "total_get",
                                                 "pct_get"})
            => ~s.uninvalidated

\* C5: each accessor reads through the cache: a read that finds its key
\* absent recomputes exactly once and stores what it returns; a read that
\* finds a value returns that value and recomputes nothing.
C5_ReadThrough ==
    \A r \in Workers :
        \A i \in DOMAIN rq[r].calls :
            LET c == rq[r].calls[i]
            IN  /\ c.got = None => (c.nq = 1 /\ c.stored)
                /\ c.got # None => (c.nq = 0 /\ c.ret = c.got)

\* C5's case: within one request an accessor missed, recomputed and stored,
\* and a later call of the same accessor returned the stored value.
C5_Witness ==
    \E r \in Workers :
        \E i, j \in DOMAIN rq[r].calls :
            LET a == rq[r].calls[i]
                b == rq[r].calls[j]
            IN  /\ i < j
                /\ a.fn = b.fn
                /\ a.got = None /\ a.nq = 1 /\ a.stored
                /\ b.got = a.ret /\ b.nq = 0 /\ b.ret = a.ret

\* C6: on a miss the percentage is 0 when the total is 0, and otherwise the
\* hundredth of a percent nearest to 100 * C / T (the even one on a tie), for
\* every total T up to MaxTotal and every C with 0 <= C <= T.
C6_PercentageIsRounded ==
    probe.kind = "percentage" =>
        LET T == probe.total_count
            C == probe.page_count
            d == probe.result * T - 10000 * C
            ad == IF d < 0 THEN 0 - d ELSE d
        IN  /\ T = 0 => probe.result = 0
            /\ T > 0 => /\ 2 * ad <= T
                        /\ 2 * ad = T => probe.result % 2 = 0

\* C6's case: 2 of 3 visits is 66.67 percent, rounded up.
C6_Witness ==
    /\ probe.kind = "percentage"
    /\ probe.total_count = 3
    /\ probe.page_count = 2
    /\ probe.result = 6667

\* C7: for a request whose method is not GET, whatever its path and headers,
\* the middleware's decision is not to record and it adds no row: the rows
\* of the table are those the view added.
C7_NonGetNotRecorded ==
    \A r \in Workers :
        LET s == rq[r]
        IN  (s.pc \notin {"idle", "middleware"} /\ s.req.method # "GET")
            => /\ ~MiddlewareTracks(s.req)
               /\ s.mwRows = 0
               /\ Cardinality(visits) = s.viewRows

\* C7's case: a POST the filter would otherwise accept went through the
\* middleware and the table is empty.
C7_Witness ==
    \E r \in Workers :
        LET s == rq[r]
        IN  /\ s.pc = "done"
            /\ s.req = Request("POST", "/about", Browser)
            /\ visits = {}

\* C8: a path that begins with the configured STATIC_URL or MEDIA_URL is
\* never tracked, whatever the headers are and whatever values the two
\* settings have.
C8_ConfiguredPrefixRejected ==
    \A r \in Workers :
        LET s == rq[r]
        IN  (/\ s.pc \notin {"idle", "middleware"}
             /\ \/ StartsWith(s.req.path, settings.STATIC_URL)
                \/ StartsWith(s.req.path, settings.MEDIA_URL))
            => (~should_track(s.req) /\ s.tracked # "yes")

\* What the filter does guarantee: a path that begins with "/static/" or
\* "/media/", the values base.py gives the two settings, is never tracked,
\* whatever the headers and whatever values the settings have.
LiteralPrefixRejected ==
    \A r \in Workers :
        LET s == rq[r]
        IN  (/\ s.pc \notin {"idle", "middleware"}
             /\ \/ StartsWith(s.req.path, "/static/")
                \/ StartsWith(s.req.path, "/media/"))
            => (~should_track(s.req) /\ s.tracked # "yes")

\* A browser's GET under "/static/", with no other exclusion applying and
\* the settings naming other prefixes, was rejected.
LiteralPrefixWitness ==
    \E r \in Workers :
        LET s == rq[r]
        IN  /\ s.pc = "done"
            /\ s.req = Request("GET", "/static/app", Browser)
            /\ settings # BaseSettings
            /\ s.tracked = "no"

\* C9: a request whose User-Agent contains "bot", "crawler", "spider" or
\* "scraper" in any mix of cases is never tracked, whatever its path.
C9_BotsRejected ==
    \A r \in Workers :
        LET s == rq[r]
        IN  (/\ s.pc \notin {"idle", "middleware"}
             /\ \E h \in s.req.headers :
                  /\ h[1] = "User-Agent"
                  /\ \E w \in {"bot", "crawler", "spider", "scraper"} :
                       Contains(Lower(h[2]), w))
            => (~should_track(s.req) /\ s.tracked # "yes")

\* C9's case: a GET of a page by a User-Agent spelling "Bot" with a capital,
\* no other exclusion applying, was rejected.
C9_Witness ==
    \E r \in Workers :
        LET s == rq[r]
        IN  /\ s.pc = "done"
            /\ s.req = Request("GET", "/about", {<<"User-Agent", "BingBot">>})
            /\ s.tracked = "no"

\* C10: for a GET, should_track is true exactly when none of the four
\* exclusions applies: a path under "/static/" or "/media/", the header
\* X-Requested-With equal to XMLHttpRequest, a path ending in a listed
\* extension whatever its case, a bot-like User-Agent.
C10_TrackedIffNoExclusion ==
    \A r \in Workers :
        LET s == rq[r]
            path == s.req.path
            underPrefix ==
                StartsWith(path, "/static/") \/ StartsWith(path, "/media/")
            xhr == <<"X-Requested-With", "XMLHttpRequest">> \in s.req.headers
            asset ==
                \E e \in {".css", ".js", ".jpg", ".jpeg", ".png", ".gif",
                          ".ico", ".svg", ".woff", ".woff2", ".ttf", ".eot",
                          ".map", ".json"} : EndsWith(Lower(path), e)
            bot ==
                \E h \in s.req.headers :
                  /\ h[1] = "User-Agent"
                  /\ \E w \in {"bot", "crawler", "spider", "scraper"} :
                       Contains(Lower(h[2]), w)
        IN  (s.pc \notin {"idle", "middleware"} /\ s.req.method = "GET")
            => /\ s.tracked \in {"yes", "no"}
               /\ s.tracked = "yes" <=> ~(underPrefix \/ xhr \/ asset \/ bot)
               /\ should_track(s.req) <=> s.tracked = "yes"

\* C10's case: a GET outside the four rules by a near miss on each (no
\* trailing slash after "static", a header value in lower case, no dot
\* before "css") was tracked.
C10_Witness ==
    \E r \in Workers :
        LET s == rq[r]
        IN  /\ s.pc = "done"
            /\ s.req.method = "GET"
            /\ s.req.path \in {"/staticfile", "/css"}
            /\ <<"X-Requested-With", "xmlhttprequest">> \in s.req.headers
            /\ s.tracked = "yes"

\* C11: Visit rows are append-only under request handling: no step of the
\* middleware, the home view, the visits view or the cache accessors removes
\* a row or changes a row's id, path or timestamp; every row of the table is
\* still in it, unchanged, after the step.
C11_AppendOnly == [][\A v \in visits : v \in visits']_vars

\* C11's case: a row of "/" was inserted, a later request inserted a row of
\* "/visits/" and a still later one a row of "/" again; all three are there.
C11_Witness ==
    \E u, v, w \in visits :
        /\ u.id < v.id /\ v.id < w.id
        /\ u.path = "/" /\ v.path = "/visits/" /\ w.path = "/"
        /\ u.timestamp < v.timestamp

\* ------------------------------------------------- the vendor_pull command

\* VENDOR_STATICFILES in the order the dictionary lists its entries.
VENDOR_STATICFILES ==
    << [filename |-> "saas-theme.min.css",
        url |-> "https://raw.githubusercontent.com/codingforentrepreneurs/SaaS-Foundations/main/src/staticfiles/theme/saas-theme.min.css"],
       [filename |-> "flowbite.min.css",
        url |-> "https://cdnjs.cloudflare.com/ajax/libs/flowbite/2.3.0/flowbite.min.css"],
       [filename |-> "flowbite.min.js",
        url |-> "https://cdnjs.cloudflare.com/ajax/libs/flowbite/2.3.0/flowbite.min.js"],
       [filename |-> "flowbite.min.js.map",
        url |-> "https://cdnjs.cloudflare.com/ajax/libs/flowbite/2.3.0/flowbite.min.js.map"] >>

VendorFilenames == {VENDOR_STATICFILES[k].filename : k \in DOMAIN VENDOR_STATICFILES}

\* What one call of download_to_local can meet:
\*   "ok"            the response is fetched and written whole;
\*   "request_error" requests.get or raise_for_status raises a
\*                   RequestException (connection, timeout, HTTP status);
\*   "stream_error"  iter_content raises a RequestException after the file
\*                   was opened for writing;
\*   "mkdir_error"   out_path.parent.mkdir raises OSError;
\*   "open_error"    out_path.open raises OSError (permission denied);
\*   "write_error"   f.write raises OSError (disk full) after the open.
DownloadEvents ==
    {"ok", "request_error", "stream_error", "mkdir_error", "open_error",
     "write_error"}

\* download_to_local(url, out_path): the files after the call and what the
\* call gives back: "True", "False", or "raised" when the exception is not a
\* requests.RequestException and so passes the except clause.
download_to_local(fs, filename, event) ==
    CASE event = "ok" -> [files |-> fs \cup {filename}, result |-> "True"]
      [] event = "request_error" -> [files |-> fs, result |-> "False"]
      [] event = "stream_error" ->
            [files |-> fs \cup {filename}, result |-> "False"]
      [] event = "mkdir_error" -> [files |-> fs, result |-> "raised"]
      [] event = "open_error" -> [files |-> fs, result |-> "raised"]
      [] event = "write_error" ->
            [files |-> fs \cup {filename}, result |-> "raised"]

\* A getter that falls back to a default directory when the setting is
\* missing.
HasVendorsDirectoryDefaulted(s) == TRUE

\* getattr(settings, "STATICFILES_VENDOR_DIR") finds the setting.
HasVendorsDirectory(s) == "STATICFILES_VENDOR_DIR" \in DOMAIN s

\* A skip test that ignores --force.
ShouldSkipIgnoringForce(exists, force_download) == exists

\* out_path.exists() and not force_download
ShouldSkip(exists, force_download) == exists /\ ~force_download

\* A summary whose middle branch tests the failures instead of the successes.
SummaryOfTestingFailures(success_count, failed_count) ==
    IF failed_count = 0 THEN "full"
    ELSE IF failed_count > 0 /\ success_count = 0 THEN "partial"
    ELSE "total_failure"

\* The branch _display_results takes.
SummaryOf(success_count, failed_count) ==
    IF failed_count = 0 THEN "full"
    ELSE IF success_count > 0 THEN "partial"
    ELSE "total_failure"

\* handle up to the loop: _get_vendors_directory raises CommandError when the
\* setting is missing; otherwise the two lists start empty.
Handle(force) ==
    /\ cmd.pc = "idle"
    /\ IF HasVendorsDirectory(settings)
       THEN cmd' = [cmd EXCEPT !.pc = "loop", !.force = force,
                               !.filesAtStart = files]
       ELSE cmd' = [cmd EXCEPT !.pc = "done", !.force = force,
                               !.outcome = "command_error",
                               !.filesAtStart = files]
    /\ UNCHANGED <<visits, seq, now, cache, rq, started, settings, files,
                   probe, ttl>>

\* One iteration of the loop on an entry whose file exists, force off: the
\* entry is reported skipped and its url joins completed_urls.
LoopSkip ==
    /\ cmd.pc = "loop"
    /\ cmd.i <= Len(VENDOR_STATICFILES)
    /\ LET e == VENDOR_STATICFILES[cmd.i]
       IN /\ ShouldSkip(e.filename \in files, cmd.force)
          /\ cmd' = [cmd EXCEPT
                !.i = @ + 1,
                !.completed_urls = Append(@, e.url),
                !.log = Append(@, [filename |-> e.filename, url |-> e.url,
                                   existed |-> e.filename \in files,
                                   attempted |-> FALSE, skipped |-> TRUE,
                                   result |-> "none"])]
    /\ UNCHANGED <<visits, seq, now, cache, rq, started, settings, files,
                   probe, ttl>>

\* One iteration of the loop on an entry that is downloaded: the result of
\* download_to_local puts it in one list or the other; an exception that
\* download_to_local lets through ends handle there.
LoopDownload(event) ==
    /\ cmd.pc = "loop"
    /\ cmd.i <= Len(VENDOR_STATICFILES)
    /\ LET e == VENDOR_STATICFILES[cmd.i]
           d == download_to_local(files, e.filename, event)
           entry == [filename |-> e.filename, url |-> e.url,
                     existed |-> e.filename \in files,
                     attempted |-> TRUE, skipped |-> FALSE,
                     result |-> d.result]
       IN /\ ~ShouldSkip(e.filename \in files, cmd.force)
          /\ files' = d.files
          /\ cmd' =
               IF d.result = "raised"
               THEN [cmd EXCEPT !.pc = "done", !.outcome = "raised",
                                !.log = Append(@, entry)]
               ELSE IF d.result = "True"
               THEN [cmd EXCEPT !.i = @ + 1,
                                !.completed_urls = Append(@, e.url),
                                !.log = Append(@, entry)]
               ELSE [cmd EXCEPT !.i = @ + 1,
                                !.failed_downloads =
                                    Append(@, <<e.filename, e.url>>),
                                !.log = Append(@, entry)]
    /\ UNCHANGED <<visits, seq, now, cache, rq, started, settings, probe,
                     ttl>>

\* _display_results after the last entry.
DisplayResults ==
    /\ cmd.pc = "loop"
    /\ cmd.i > Len(VENDOR_STATICFILES)
    /\ LET summary == SummaryOf(Len(cmd.completed_urls),
                                Len(cmd.failed_downloads))
       IN cmd' = [cmd EXCEPT
                !.pc = "done", !.outcome = "ok", !.summary = summary,
                !.listed = IF summary = "partial"
                           THEN cmd.failed_downloads ELSE <<>>]
    /\ UNCHANGED <<visits, seq, now, cache, rq, started, settings, files,
                   probe, ttl>>

\* The settings of base.py, and a settings module without the vendors
\* directory.
VendorSettings ==
    {BaseSettings, [STATIC_URL |-> "/static/", MEDIA_URL |-> "/media/"]}

\* The command is run once, on any content of the vendors directory.
VendorInit ==
    /\ visits = {}
    /\ seq = 0
    /\ now = 0
    /\ cache = [k \in CacheKeys |-> None]
    /\ rq = [r \in Workers |-> Idle]
    /\ started = 0
    /\ settings \in VendorSettings
    /\ cmd = IdleCommand
    /\ files \in SUBSET VendorFilenames
    /\ ttl = [k \in CacheKeys |-> None]
    /\ probe = NoProbe

VendorNext ==
    \/ \E force \in BOOLEAN : Handle(force)
    \/ LoopSkip
    \/ \E event \in DownloadEvents : LoopDownload(event)
    \/ DisplayResults

SpecVendor == VendorInit /\ [][VendorNext]_vars

\* The entries of the log whose download was attempted and did not succeed.
FailedEntries ==
    {k \in DOMAIN cmd.log :
        cmd.log[k].attempted /\ cmd.log[k].result # "True"}

\* How many times x occurs in the sequence q.
Occurrences(q, x) == Cardinality({j \in DOMAIN q : q[j] = x})

\* C12: for every entry the loop handled whose destination file existed:
\* with force off no download was attempted for it, it was reported as
\* skipped and counted as completed; with force on a download was attempted
\* for it.
C12_SkipUnlessForced ==
    \A k \in DOMAIN cmd.log :
        cmd.log[k].existed =>
            IF cmd.force
            THEN cmd.log[k].attempted /\ ~cmd.log[k].skipped
            ELSE /\ ~cmd.log[k].attempted
                 /\ cmd.log[k].skipped
                 /\ Occurrences(cmd.completed_urls, cmd.log[k].url) = 1

\* C12's case: a run without --force ended having skipped a file that was
\* there and downloaded one that was not.
C12_Witness ==
    /\ cmd.pc = "done"
    /\ ~cmd.force
    /\ \E j, k \in DOMAIN cmd.log :
        /\ cmd.log[j].existed /\ cmd.log[j].skipped
        /\ ~cmd.log[k].existed /\ cmd.log[k].attempted

\* C13: once the command has ended after a download failed, every entry was
\* handled, and if at least one entry succeeded as well the summary is the
\* partial success whose list is exactly the failed (filename, url) pairs.
C13_FailureDoesNotStopLoop ==
    (cmd.pc = "done" /\ FailedEntries # {}) =>
        /\ Len(cmd.log) = Len(VENDOR_STATICFILES)
        /\ (\E k \in DOMAIN cmd.log : cmd.log[k].result = "True") =>
             /\ cmd.summary = "partial"
             /\ Len(cmd.listed) = Cardinality(FailedEntries)
             /\ \A k \in FailedEntries :
                  Occurrences(cmd.listed,
                      <<cmd.log[k].filename, cmd.log[k].url>>) = 1

\* C14: the command never ends on an exception of one file's download, and
\* a command that went into the loop and ended has printed the summary.
C14_NeverRaises ==
    /\ cmd.outcome # "raised"
    /\ (cmd.pc = "done" /\ "STATICFILES_VENDOR_DIR" \in DOMAIN settings) =>
            cmd.summary # "none"

\* C15: when STATICFILES_VENDOR_DIR is missing, the command once run has
\* ended with a command error, attempted no download and left the files of
\* the directory as they were.
C15_MissingSettingAborts ==
    ("STATICFILES_VENDOR_DIR" \notin DOMAIN settings /\ cmd.pc # "idle") =>
        /\ cmd.pc = "done"
        /\ cmd.outcome = "command_error"
        /\ cmd.log = <<>>
        /\ cmd.summary = "none"
        /\ files = cmd.filesAtStart

\* C15's case: the setting is missing, the command was run with --force on a
\* directory that holds files, and ended with the command error.
C15_Witness ==
    /\ "STATICFILES_VENDOR_DIR" \notin DOMAIN settings
    /\ cmd.outcome = "command_error"
    /\ cmd.force
    /\ files # {}

\* C16: once the loop has ended and the summary is printed, every entry is
\* in exactly one of the two lists, exactly once; the summary is the full
\* success when no entry failed, the total failure when every entry failed,
\* and otherwise the partial success, which lists the failures.
C16_OneSummary ==
    (cmd.pc = "done" /\ cmd.outcome = "ok") =>
        /\ \A k \in DOMAIN VENDOR_STATICFILES :
             LET e == VENDOR_STATICFILES[k]
             IN Occurrences(cmd.completed_urls, e.url)
                + Occurrences(cmd.failed_downloads, <<e.filename, e.url>>)
                = 1
        /\ Len(cmd.completed_urls) + Len(cmd.failed_downloads)
             = Len(VENDOR_STATICFILES)
        /\ cmd.summary \in {"full", "partial", "total_failure"}
        /\ cmd.summary = "full" <=> cmd.failed_downloads = <<>>
        /\ cmd.summary = "total_failure" <=>
             Len(cmd.failed_downloads) = Len(VENDOR_STATICFILES)
        /\ cmd.listed =
             IF cmd.summary = "partial" THEN cmd.failed_downloads ELSE <<>>

\* C16's case: the loop ended with a skipped entry, a downloaded one and two
\* failed ones, and the partial success was printed.
C16_Witness ==
    /\ cmd.pc = "done"
    /\ cmd.summary = "partial"
    /\ Len(cmd.failed_downloads) = 2
    /\ \E j, k \in DOMAIN cmd.log :
         /\ cmd.log[j].skipped
         /\ cmd.log[k].result = "True"

\* ------------------------------------------------- the URL configuration

\* path(route, view) matches the whole remaining path; path(route,
\* include(...)) and path(route, admin.site.urls) match a prefix and hand the
\* rest to the included patterns.
UrlPattern(route, endpoint, target) ==
    [route |-> route, endpoint |-> endpoint, target |-> target]

\* A setting such as "/static/" as the route made of it: without the
\* leading slash.
LStripSlash(url) ==
    IF StartsWith(url, "/") THEN SubSeq(url, 2, Len(url)) ELSE url

\* urlpatterns of config/urls.py as the module leaves it after its if/else
\* on settings.DEBUG.
urlpatterns(s) ==
    << UrlPattern("admin/", FALSE, "admin_site"),
       UrlPattern("", TRUE, "home"),
       UrlPattern("visits/", FALSE, "visits") >>
    \o (IF s.DEBUG
        THEN << UrlPattern("admin/", FALSE, "admin_site"),
                UrlPattern(LStripSlash(s.STATIC_URL), FALSE, "static_serve"),
                UrlPattern(LStripSlash(s.MEDIA_URL), FALSE, "media_serve"),
                UrlPattern("__debug__/", FALSE, "debug_toolbar"),
                UrlPattern("__reload__/", FALSE, "browser_reload") >>
        ELSE << UrlPattern("admin/", FALSE, "admin_honeypot"),
                UrlPattern("secret/", FALSE, "admin_site") >>)

\* Whether the patterns behind an include match the rest of the path.  The
\* admin site and the honeypot end with a catch-all pattern and the two serve
\* views take any file path; apps.visits.urls has the single route "".
IncludedMatches(target, rest) ==
    CASE target = "visits" -> rest = ""
      [] target = "browser_reload" -> rest = "events/"
      [] target = "debug_toolbar" -> rest = ""
      [] OTHER -> TRUE

\* Whether one pattern matches the request path.
PatternMatches(pattern, request_path) ==
    LET rel == LStripSlash(request_path)
    IN IF pattern.endpoint
       THEN rel = pattern.route
       ELSE /\ StartsWith(rel, pattern.route)
            /\ IncludedMatches(pattern.target,
                   SubSeq(rel, Len(pattern.route) + 1, Len(rel)))

\* The resolver: the first pattern of the list that matches, Resolver404
\* when none does.
ResolveUrl(s, request_path) ==
    LET pats == urlpatterns(s)
        hits == {k \in DOMAIN pats : PatternMatches(pats[k], request_path)}
    IN IF hits = {} THEN "not_found"
       ELSE pats[CHOOSE k \in hits : \A j \in hits : k <= j].target

\* A request path is resolved.
ResolvePath(request_path) ==
    /\ probe' = [kind |-> "resolve", path |-> request_path,
                 target |-> ResolveUrl(settings, request_path)]
    /\ UNCHANGED <<visits, seq, now, cache, rq, started, settings, cmd,
                   files, ttl>>

\* Values of DJANGO_ADMIN_URL a deployment may choose.
AdminUrls == {"secret/", "backoffice/", "manage-7f3a/"}

\* base.py with DEBUG and ADMIN_URL as dev.py or production.py set them.
UrlSettings ==
    {[STATIC_URL |-> "/static/", MEDIA_URL |-> "/media/",
      STATICFILES_VENDOR_DIR |-> "staticfiles/vendors",
      DEBUG |-> debug, ADMIN_URL |-> admin_url] :
        debug \in BOOLEAN, admin_url \in AdminUrls}

UrlPaths ==
    {"/", "/visits/", "/visits/x/", "/nothing/",
     "/admin/", "/admin/login/", "/admin/visits/visit/", "/admin",
     "/administrator/",
     "/secret/", "/secret/login/", "/secret/visits/visit/", "/secret",
     "/backoffice/", "/backoffice/login/", "/manage-7f3a/",
     "/static/app.css", "/media/a.png", "/__debug__/",
     "/__reload__/events/"}

UrlInit ==
    /\ visits = {}
    /\ seq = 0
    /\ now = 0
    /\ cache = [k \in CacheKeys |-> None]
    /\ rq = [r \in Workers |-> Idle]
    /\ started = 0
    /\ settings \in UrlSettings
    /\ cmd = IdleCommand
    /\ files = {}
    /\ ttl = [k \in CacheKeys |-> None]
    /\ probe = NoProbe

UrlNext == \E request_path \in UrlPaths : ResolvePath(request_path)

SpecUrls == UrlInit /\ [][UrlNext]_vars

\* C17: in production (DEBUG false) a path under "/admin/" resolves to the
\* honeypot and not to the real admin site, and a path that resolves to the
\* real admin site lies under the ADMIN_URL setting.
C17_HoneypotInProduction ==
    (probe.kind = "resolve" /\ ~settings.DEBUG) =>
        /\ StartsWith(probe.path, "/admin/") =>
                probe.target = "admin_honeypot"
        /\ probe.target = "admin_site" =>
                StartsWith(probe.path, "/" \o settings.ADMIN_URL)

\* --------------------------------------------------------- the Visit admin

\* A staff user is the set of the Visit permissions it holds.
AdminUsers == SUBSET {"view", "add", "change", "delete"}

\* The add permission as ModelAdmin grants it by default.
has_add_permission_default(user) == "add" \in user

\* VisitAdmin.has_add_permission
has_add_permission(user) == FALSE

\* VisitAdmin.has_change_permission, for the list (obj None) or an object.
has_change_permission(user, obj) == FALSE

\* VisitAdmin overrides neither has_delete_permission nor
\* has_view_permission: ModelAdmin's apply, which ask the user's permissions.
has_delete_permission(user) == "delete" \in user

has_view_permission(user) == "view" \in user \/ "change" \in user

\* The actions the changelist offers to the user: those of
\* VisitAdmin.actions, delete_selected only with the delete permission.
AdminActions(user) ==
    {"export_as_json"} \cup
    (IF has_delete_permission(user) THEN {"delete_selected"} ELSE {})

\* What an admin request leaves in probe: the operation, whether it was
\* carried out, and whether the table is another one after it.
AdminProbe(op, allowed, table) ==
    [kind |-> "admin", op |-> op,
     outcome |-> IF allowed THEN "done" ELSE "denied",
     altered |-> table # visits]

\* POST to the add view.
AdminAdd(user, path) ==
    /\ LET allowed == has_add_permission(user)
           table == IF allowed THEN Insert(visits, NewVisit(path))
                    ELSE visits
       IN /\ visits' = table
          /\ seq' = IF allowed THEN seq + 1 ELSE seq
          /\ now' = IF allowed THEN now + 1 ELSE now
          /\ probe' = AdminProbe("add", allowed, table)
    /\ UNCHANGED <<cache, rq, started, settings, cmd, files, ttl>>

\* POST to the change view of the row v with another path.
AdminChange(user, v, path) ==
    /\ v \in visits
    /\ LET allowed == has_change_permission(user, v)
           table == IF allowed
                    THEN (visits \ {v}) \cup {[v EXCEPT !.path = path]}
                    ELSE visits
       IN /\ visits' = table
          /\ probe' = AdminProbe("change", allowed, table)
    /\ UNCHANGED <<seq, now, cache, rq, started, settings, cmd, files,
                     ttl>>

\* POST to the delete view of the row v, confirmed.
AdminDelete(user, v) ==
    /\ v \in visits
    /\ LET allowed == has_delete_permission(user)
           table == IF allowed THEN visits \ {v} ELSE visits
       IN /\ visits' = table
          /\ probe' = AdminProbe("delete", allowed, table)
    /\ UNCHANGED <<seq, now, cache, rq, started, settings, cmd, files,
                     ttl>>

\* POST of an action of the changelist on the selected rows: export_as_json
\* reads them, delete_selected (confirmed) deletes them.
AdminAction(user, action, selected) ==
    /\ selected # {}
    /\ selected \subseteq visits
    /\ LET allowed == has_view_permission(user)
                      /\ action \in AdminActions(user)
           table == IF allowed /\ action = "delete_selected"
                    THEN visits \ selected ELSE visits
       IN /\ visits' = table
          /\ probe' = AdminProbe(action, allowed, table)
    /\ UNCHANGED <<seq, now, cache, rq, started, settings, cmd, files,
                     ttl>>

\* GET of the changelist: changelist_view counts the rows.
AdminChangelist(user) ==
    /\ probe' = AdminProbe("changelist", has_view_permission(user), visits)
    /\ UNCHANGED <<visits, seq, now, cache, rq, started, settings, cmd,
                   files, ttl>>

\* The table after k inserts of the requests GET /, GET /visits/, GET /: the
\* middleware's row and the home view's row, the middleware's row, and two
\* more.
RecordedPaths == <<"/", "/", "/visits/", "/", "/">>

AdminTables ==
    {{[id |-> j, path |-> RecordedPaths[j], timestamp |-> j - 1] :
        j \in 1..k} : k \in {0, 2, 3, 5}}

AdminInit ==
    /\ visits \in AdminTables
    /\ seq = Cardinality(visits)
    /\ now = Cardinality(visits)
    /\ cache = [k \in CacheKeys |-> None]
    /\ rq = [r \in Workers |-> Idle]
    /\ started = 0
    /\ settings = BaseSettings
    /\ cmd = IdleCommand
    /\ files = {}
    /\ ttl = [k \in CacheKeys |-> None]
    /\ probe = NoProbe

AdminNext ==
    \E user \in AdminUsers :
        \/ \E path \in MainPaths : AdminAdd(user, path)
        \/ \E v \in visits : \E path \in MainPaths :
                AdminChange(user, v, path)
        \/ \E v \in visits : AdminDelete(user, v)
        \/ \E action \in {"export_as_json", "delete_selected"} :
           \E selected \in SUBSET visits :
                AdminAction(user, action, selected)
        \/ AdminChangelist(user)

SpecAdmin == AdminInit /\ [][AdminNext]_vars

SpecExpiry ==
    Init /\ [][Next]_vars /\ \A k \in CacheKeys : WF_vars(Expire(k))

\* What the accessor of key k computes from the table as it is now.
TableValue(k) ==
    IF k = TotalKey THEN CountAll
    ELSE IF \E p \in MainPaths : k = CountKey(p)
    THEN CountPath(CHOOSE p \in MainPaths : k = CountKey(p))
    ELSE LET p == CHOOSE q \in MainPaths : k = PercentageKey(q)
         IN Percentage(CountPath(p), CountAll)

\* The cache holds for k a value the table no longer gives.
Stale(k) == cache[k] # None /\ cache[k] # TableValue(k)

\* C19: every entry the accessors wrote is stored with the timeout 300, and
\* a cached value that disagrees with the table is eventually removed, the
\* passing of time being enough.
C19_StalenessSelfLimiting ==
    /\ [](\A k \in CacheKeys : cache[k] # None => ttl[k] = cache_timeout)
    /\ \A k \in CacheKeys : Stale(k) ~> (cache[k] = None)

\* C19's case: between two requests the total has expired, while the
\* percentage of "/" stored by the same request is still cached with its
\* timeout and disagrees with the table.
C19_Witness ==
    /\ \A r \in Workers : ~InFlight(rq[r])
    /\ cache[TotalKey] = None
    /\ cache[CountKey("/")] # None
    /\ Stale(PercentageKey("/"))
    /\ ttl[PercentageKey("/")] = cache_timeout

\* ------------------------------------------------------ concurrent requests

\* Requests the concurrent specification starts.
MaxConcurrent == 2

\* The two pages, asked by a browser.
ConcurrentRequests ==
    {Request("GET", "/", Browser), Request("GET", "/visits/", Browser)}

\* A request goes to the first free worker, while the other may be handling
\* one.
StartConcurrent(r, req) ==
    /\ started < MaxConcurrent
    /\ r = "w1" \/ InFlight(rq["w1"])
    /\ Start(r, req)

ConcurrentNext ==
    \/ \E r \in Workers : \E req \in ConcurrentRequests :
            StartConcurrent(r, req)
    \/ \E r \in Workers : Middleware(r)
    \/ \E r \in Workers : RecordCreate(r)
    \/ \E r \in Workers : Invalidate(r)
    \/ \E r \in Workers : \E fn \in {"count", "total"} : AccessorGet(r, fn)
    \/ \E r \in Workers : \E fn \in {"count", "total"} : AccessorQuery(r, fn)
    \/ \E r \in Workers : \E fn \in {"count", "total"} : AccessorSet(r, fn)
    \/ \E r \in Workers : PercentageGet(r)
    \/ \E r \in Workers : PercentageSet(r)
    \/ \E r \in Workers : Render(r)

SpecConcurrent == Init /\ [][ConcurrentNext]_vars

\* Both workers missed the key of accessor fn, have recomputed and have not
\* written yet, and no row was inserted between the two queries.
BothRecomputed(fn) ==
    /\ rq["w1"].pc = fn \o "_set"
    /\ rq["w2"].pc = fn \o "_set"
    /\ KeyOf(fn, rq["w1"].req.path) = KeyOf(fn, rq["w2"].req.path)
    /\ rq["w1"].qseq = rq["w2"].qseq

\* Both workers missed the percentage key of the same path, have recomputed
\* and have not written yet, and no row was inserted since the first miss.
BothRecomputedPercentage ==
    /\ rq["w1"].pc = "pct_set"
    /\ rq["w2"].pc = "pct_set"
    /\ rq["w1"].req.path = rq["w2"].req.path
    /\ rq["w1"].pseq = seq
    /\ rq["w2"].pseq = seq

\* C20 as stated, for every key: two requests that missed the same key
\* concurrently, with no insert between their recomputations, hold the same
\* value to write.
C20_ConcurrentMissesAgree ==
    /\ \A fn \in {"count", "total"} :
          BothRecomputed(fn) => rq["w1"].count = rq["w2"].count
    /\ BothRecomputedPercentage =>
          rq["w1"].percentage = rq["w2"].percentage

\* C20 amended: two requests that missed the total key or the same per-path
\* count key concurrently, with no insert between their two queries, hold
\* the same value to write, the count the table gives.
C20_ConcurrentCountsAgree ==
    \A fn \in {"count", "total"} :
        BothRecomputed(fn) =>
            /\ rq["w1"].count = rq["w2"].count
            /\ (rq["w1"].qseq = seq =>
                  rq["w1"].count = TableValue(KeyOf(fn, rq["w1"].req.path)))

\* C20's case: both workers missed the total, both have queried the table
\* with no insert in between, and neither has written yet.
C20_Witness ==
    /\ BothRecomputed("total")
    /\ rq["w1"].got = None /\ rq["w2"].got = None
    /\ rq["w1"].count > 0

\* C21: the total a request is about to store after a miss is the number of
\* rows there were when it queried, whatever was inserted since, and a
\* cached total is never larger than the table; so a total counted before
\* another request's insert and stored after that request's invalidation
\* stays in the cache, smaller than the table.
C21_StoredTotalIsCountAtQuery ==
    /\ \A r \in Workers :
          rq[r].pc = "total_set" =>
              rq[r].count = Cardinality({v \in visits : v.id <= rq[r].qseq})
    /\ cache[TotalKey] # None => cache[TotalKey] <= CountAll

\* C21's case: two GET / were handled, both inserted their rows, invalidated
\* and rendered, none is in progress, and the cached total is smaller than
\* the number of rows.
C21_Witness ==
    /\ \A r \in Workers :
          /\ rq[r].pc = "done"
          /\ rq[r].outcome = "rendered"
          /\ rq[r].req.path = "/"
    /\ CountAll = 4
    /\ cache[TotalKey] # None
    /\ cache[TotalKey] < CountAll

\* ------------------------------------------------- the home view per path

\* Rows the per-path specification inserts.
MaxRows == 6

\* The paths HomePageView.get is handed, as request.path.
ViewPaths == {"/", "/visits/"}

\* The first half of a GET of path by a browser, handled alone: the
\* middleware inserts its row, record_page_visit inserts the view's row and
\* _invalidate_visit_cache deletes the three keys of the path.
HomeRecord(path) ==
    /\ probe.kind = "none" \/ (probe.kind = "home" /\ probe.phase = "rendered")
    /\ seq + 2 <= MaxRows
    /\ LET mw == NewVisit(path)
           view == [id |-> seq + 2, path |-> path, timestamp |-> now + 1]
       IN visits' = Insert(Insert(visits, mw), view)
    /\ seq' = seq + 2
    /\ now' = now + 2
    /\ cache' = DeleteMany(cache, InvalidatedKeys(path))
    /\ ttl' = DeleteMany(ttl, InvalidatedKeys(path))
    /\ probe' = [kind |-> "home", path |-> path, phase |-> "recorded",
                 page_visit_count |-> None, total_visit_count |-> None,
                 page_visit_percentage |-> None]
    /\ UNCHANGED <<rq, started, settings, cmd, files>>

\* A read of key through the cache c: the cached value, or on a miss value.
ReadThrough(c, key, value) == IF c[key] = None THEN value ELSE c[key]

\* The cache after the read-through of key: on a miss value is stored.
AfterRead(c, key, value) ==
    IF c[key] = None THEN CacheSet(c, key, value) ELSE c

\* The timeouts after the same read-through.
ExpiryAfterRead(c, t, key) ==
    IF c[key] = None THEN CacheSetExpiry(t, key, cache_timeout) ELSE t

\* The second half: get_context_data reads the count of the path, the total
\* and the percentage, each through its key; the percentage on a miss reads
\* the total and the count through theirs again.
HomeContext ==
    /\ probe.kind = "home"
    /\ probe.phase = "recorded"
    /\ LET path == probe.path
           count == ReadThrough(cache, CountKey(path), CountPath(path))
           c1 == AfterRead(cache, CountKey(path), CountPath(path))
           t1 == ExpiryAfterRead(cache, ttl, CountKey(path))
           total == ReadThrough(c1, TotalKey, CountAll)
           c2 == AfterRead(c1, TotalKey, CountAll)
           t2 == ExpiryAfterRead(c1, t1, TotalKey)
           pct == ReadThrough(c2, PercentageKey(path),
                              Percentage(c2[CountKey(path)], c2[TotalKey]))
           c3 == AfterRead(c2, PercentageKey(path),
                           Percentage(c2[CountKey(path)], c2[TotalKey]))
           t3 == ExpiryAfterRead(c2, t2, PercentageKey(path))
       IN /\ cache' = c3
          /\ ttl' = t3
          /\ probe' = [probe EXCEPT !.phase = "rendered",
                                    !.page_visit_count = count,
                                    !.total_visit_count = total,
                                    !.page_visit_percentage = pct]
    /\ UNCHANGED <<visits, seq, now, rq, started, settings, cmd, files>>

PathsNext ==
    \/ \E path \in ViewPaths : HomeRecord(path)
    \/ HomeContext
    \/ \E k \in CacheKeys : Expire(k)

SpecPaths == Init /\ [][PathsNext]_vars

\* The keys of the paths other than path.
OtherPathKeys(path) ==
    UNION {{CountKey(q), PercentageKey(q)} : q \in ViewPaths \ {path}}

C23_PercentageInRange ==
    \A r \in Workers :
        /\ \A i \in DOMAIN rq[r].calls :
              rq[r].calls[i].fn = "pct" =>
                  /\ 0 <= rq[r].calls[i].ret
                  /\ rq[r].calls[i].ret <= 10000
        /\ rq[r].pc = "pct_set" =>
              (0 <= rq[r].percentage /\ rq[r].percentage <= 10000)

\* C25: in every context the home view rendered, with the two workers
\* interleaved, page_visit_count is at most total_visit_count.
C25_CountAtMostTotal ==
    \A r \in Workers :
        HomeGetRendered(rq[r]) =>
            rq[r].page_visit_count <= rq[r].total_visit_count

\* C24: the step in which the view's recorder fails to insert leaves the
\* table as it was and deletes no cache key, value and timeout of every key
\* staying as they were, and the request ends there: no invalidation follows.
C24_FailedInsertKeepsCache ==
    [][\A r \in Workers :
          (rq[r].pc = "record" /\ rq'[r].pc \notin {"record", "invalidate"}) =>
              /\ rq'[r].pc = "done"
              /\ rq'[r].outcome = "error"
              /\ visits' = visits
              /\ cache' = cache
              /\ ttl' = ttl
      ]_vars

\* C24's case: a GET / ended on the failed insert of the view's recorder,
\* after the middleware's row, and the total cached before the request is
\* still cached, as are the count and the percentage of "/".
C24_Witness ==
    \E r \in Workers :
        /\ rq[r].pc = "done"
        /\ rq[r].outcome = "error"
        /\ rq[r].mwRows = 1
        /\ rq[r].viewRows = 0
        /\ rq[r].totalAtStart # None
        /\ cache[TotalKey] = rq[r].totalAtStart
        /\ cache[CountKey("/")] # None
        /\ cache[PercentageKey("/")] # None

====
